---- MODULE Spec2Model ----
(***************************************************************************)
(* Model of pkg/storage/ingest/pusher.go: pusherConsumer.consume and its   *)
(* two goroutines, unmarshalRequests (the Decoder) and pushRequests (the   *)
(* Pusher), joined by the unbuffered channel recC and the derived context. *)
(*                                                                         *)
(* Batch indices are zero-based as in the code; records[i + 1] is the      *)
(* record at batch index i.                                                *)
(***************************************************************************)
EXTENDS Integers, Sequences, FiniteSets, TLC

VARIABLES
    records,            \* consume's argument: the batch, a sequence of record
    sinkResp,           \* what Pusher.PushToStorage answers for the record at each position
    parentCanceled,     \* the caller's ctx is canceled
    cancelCalled,       \* the deferred cancel(...) of consume has run
    consumePc,          \* consume: "init", "running", "returned"
    retErr,             \* consume's return value
    decPc,              \* unmarshalRequests: "notstarted", "loop", "select", "done"
    decIdx,             \* unmarshalRequests: position of the range loop
    pRecord,            \* unmarshalRequests: the parsedRecord being offered
    recCClosed,         \* close(recC) has run
    closeCount,         \* number of close(recC) calls
    pushPc,             \* pushRequests: "idle", "recv", "handle", "pushing", "completed", "aborted"
    recordIdx,          \* pushRequests: recordIdx
    wr,                 \* pushRequests: the parsedRecord received last
    pushErr,            \* pushRequests' return value
    sinkCalls,          \* the PushToStorage calls made so far, in call order
    inflight,           \* PushToStorage calls that have not returned yet
    pushResults,        \* the errors PushToStorage has returned, in call order
    received,           \* the parsedRecords pushRequests has received, in order
    decoded,            \* batch indices unmarshalRequests has unmarshalled, in order
    processingTimeSeconds,  \* number of Observe calls on the histogram
    totalRequests,      \* counter cortex_ingest_storage_reader_records_total
    clientErrRequests,  \* counter records_failed_total{cause="client"}
    serverErrRequests,  \* counter records_failed_total{cause="server"}
    errLogs,            \* level.Error entries, in order
    warnLogs            \* level.Warn entries, in order

vars == << records, sinkResp, parentCanceled, cancelCalled, consumePc, retErr,
           decPc, decIdx, pRecord, recCClosed, closeCount, pushPc, recordIdx, wr,
           pushErr, sinkCalls, inflight, pushResults, received, decoded,
           processingTimeSeconds, totalRequests, clientErrRequests,
           serverErrRequests, errLogs, warnLogs >>

envVars     == << records, sinkResp >>
decVars     == << decPc, decIdx, pRecord, recCClosed, closeCount, decoded >>
pushVars    == << pushPc, recordIdx, wr, pushErr, sinkCalls, inflight, pushResults,
                  received >>
metricVars  == << processingTimeSeconds, totalRequests, clientErrRequests,
                  serverErrRequests >>
logVars     == << errLogs, warnLogs >>
consumeVars == << consumePc, retErr, cancelCalled >>

----------------------------------------------------------------------------
(* Bounds and input domains *)

MaxBatch == 3

Tenants == {"A", "B"}

ValidContents == {"validA", "validC"}

Contents == ValidContents \cup {"garbage"}

Responses == {"ok", "client", "server"}

Nil == [kind |-> "nil"]

----------------------------------------------------------------------------
(* Data *)

\* type record: the input unit, tenant id plus serialized write request
Record == [tenantID : Tenants, content : Contents]

\* WriteRequest.Unmarshal: the error of decoding content, Nil when it decodes
Unmarshal(content) ==
    IF content \in ValidContents
    THEN Nil
    ELSE [kind |-> "unmarshal", of |-> content]

\* the WriteRequest that Unmarshal leaves in the container
WriteRequest(content) ==
    IF content \in ValidContents
    THEN [decodedFrom |-> content]
    ELSE [decodedFrom |-> "partial"]

\* errors.Wrap(err, "parsing ingest consumer write request")
Wrap(err) ==
    [kind |-> "wrapped", msg |-> "parsing ingest consumer write request", cause |-> err]

\* the parsedRecord unmarshalRequests builds from the record at batch index i;
\* src remembers the batch index the unit was built from
NewParsedRecord(rec, i) ==
    [ tenantID     |-> rec.tenantID,
      WriteRequest |-> WriteRequest(rec.content),
      err          |-> IF Unmarshal(rec.content) # Nil
                       THEN Wrap(Unmarshal(rec.content))
                       ELSE Nil,
      src          |-> i ]

NoRecord == [tenantID |-> "", WriteRequest |-> [decodedFrom |-> ""], err |-> Nil, src |-> -1]

\* ctx.Done() of the context derived by context.WithCancelCause(ctx)
CtxDone == parentCanceled \/ cancelCalled

\* variant: the loop stops one record early
RangeExhausted_OffByOne(i, n) == i >= n - 1

\* variant: the loop does not advance and offers the same record again
NextDecIdx_Stuck(i) == i

\* the range loop of unmarshalRequests has run out of records
RangeExhausted(i, n) == i >= n

\* the range loop of unmarshalRequests moves to the next record
NextDecIdx(i) == i + 1

\* variant: recordIdx++ placed after the decode-error test
NextRecordIdx_PushedOnly(idx, unit) == IF unit.err # Nil THEN idx ELSE idx + 1

\* recordIdx++ on every unit received, before the decode-error test
NextRecordIdx(idx, unit) == idx + 1

\* variant: the decode-error test is missing
SkipsPush_Never(unit) == FALSE

\* if wr.err != nil { ...; continue }
SkipsPush(unit) == unit.err # Nil

\* variant: the decode failure is skipped without a log entry
LogParseFailure_Silent(logs, unit) == logs

\* level.Error(c.l).Log("msg", ..., "err", wr.err)
LogParseFailure(logs, unit) ==
    Append(logs, [ level |-> "error",
                   msg   |-> "failed to parse write request; skipping",
                   err   |-> unit.err ])

\* variant: a decode failure returns from pushRequests
AfterParseFailure_Abort(unit) == "aborted"

\* where pushRequests goes after logging a decode failure: continue
AfterParseFailure(unit) == "recv"

\* user.InjectOrgID(ctx, wr.tenantID): the tenant the push context carries
InjectOrgID(tenantID) == tenantID

\* c.p.PushToStorage(ctx, wr.WriteRequest): the Sink's answer
PushToStorage(unit) ==
    IF sinkResp[unit.src + 1] = "ok"
    THEN Nil
    ELSE [kind |-> sinkResp[unit.src + 1], at |-> unit.src]

\* variant: the metrics are skipped when the context is found canceled after the push
TotalAfterPush_UnlessCanceled(total, err) == IF parentCanceled THEN total ELSE total + 1

\* mimirpb.IsClientError(err)
IsClientError(err) == err.kind = "client"

\* variant: totalRequests.Inc() only when the push succeeded
TotalAfterPush_SuccessOnly(total, err) == IF err = Nil THEN total + 1 ELSE total

\* c.totalRequests.Inc() after every push
TotalAfterPush(total, err) == total + 1

\* c.processingTimeSeconds.Observe(...) after every push
ObservedAfterPush(obs, err) == obs + 1

\* c.clientErrRequests.Inc() for a client error only
ClientErrAfterPush(n, err) ==
    IF err # Nil /\ IsClientError(err) THEN n + 1 ELSE n

\* c.serverErrRequests.Inc() for a non-client error only
ServerErrAfterPush(n, err) ==
    IF err # Nil /\ ~IsClientError(err) THEN n + 1 ELSE n

\* fmt.Errorf("consuming record at index %d for tenant %s: %w", recordIdx, wr.tenantID, err)
ConsumingError(idx, tenantID, err) ==
    [kind |-> "consuming", index |-> idx, tenant |-> tenantID, cause |-> err]

\* variant: every push error returns from pushRequests
AfterPush_AbortOnAnyError(err) == IF err # Nil THEN "aborted" ELSE "recv"

\* variant: a client error pushes the same unit again
AfterPush_RetryClientError(err) ==
    IF err = Nil THEN "recv" ELSE IF err.kind = "client" THEN "handle" ELSE "aborted"

\* pushRequests after a push has returned err: return on a server error, else loop
AfterPush(err) ==
    IF err # Nil /\ ~IsClientError(err) THEN "aborted" ELSE "recv"

\* level.Warn(c.l).Log("msg", ..., "err", err, "user", wr.tenantID)
LogClientError(logs, unit, err) ==
    Append(logs, [ level |-> "warn",
                   msg   |-> "detected a client error while ingesting write request (the request may have been partially ingested)",
                   err   |-> err,
                   user  |-> unit.tenantID ])

\* variant: consume drops the error of pushRequests
ConsumeResult_Swallowed(err) == Nil

\* consume: if err != nil { return err }; return nil
ConsumeResult(err) == err

\* variant: cancel is called on the success path only, not deferred
CancelOnReturn_SuccessOnly(err) == err = Nil

\* defer cancel(...): the derived context is canceled when consume returns err
CancelOnReturn(err) == TRUE

----------------------------------------------------------------------------
(* Initial state: a batch and the Sink's answers; nothing has run *)

Init ==
    /\ \E n \in 0..MaxBatch :
          /\ records \in [1..n -> Record]
          /\ sinkResp \in [1..n -> Responses]
    /\ \A i \in DOMAIN records :
          records[i].content \notin ValidContents => sinkResp[i] = "ok"
    /\ parentCanceled = FALSE
    /\ cancelCalled = FALSE
    /\ consumePc = "init"
    /\ retErr = Nil
    /\ decPc = "notstarted"
    /\ decIdx = 0
    /\ pRecord = NoRecord
    /\ recCClosed = FALSE
    /\ closeCount = 0
    /\ pushPc = "idle"
    /\ recordIdx = -1
    /\ wr = NoRecord
    /\ pushErr = Nil
    /\ sinkCalls = << >>
    /\ inflight = {}
    /\ pushResults = << >>
    /\ received = << >>
    /\ decoded = << >>
    /\ processingTimeSeconds = 0
    /\ totalRequests = 0
    /\ clientErrRequests = 0
    /\ serverErrRequests = 0
    /\ errLogs = << >>
    /\ warnLogs = << >>

----------------------------------------------------------------------------
(* The caller *)

\* the caller's context is canceled, before or while consume runs
CancelParent ==
    /\ consumePc # "returned"
    /\ ~parentCanceled
    /\ parentCanceled' = TRUE
    /\ UNCHANGED << envVars, decVars, pushVars, metricVars, logVars, consumeVars >>

----------------------------------------------------------------------------
(* consume *)

\* make(chan), WithCancelCause, go unmarshalRequests, call pushRequests
ConsumeStart ==
    /\ consumePc = "init"
    /\ consumePc' = "running"
    /\ decPc' = "loop"
    /\ pushPc' = "recv"
    /\ recordIdx' = -1
    /\ UNCHANGED << envVars, parentCanceled, retErr, cancelCalled, decIdx, pRecord,
                    recCClosed, closeCount, decoded, wr, pushErr, sinkCalls, inflight,
                    pushResults, received, metricVars, logVars >>

\* pushRequests has returned: consume returns its error, the deferred cancel runs
ConsumeReturn ==
    /\ consumePc = "running"
    /\ pushPc \in {"completed", "aborted"}
    /\ consumePc' = "returned"
    /\ retErr' = ConsumeResult(pushErr)
    /\ cancelCalled' = CancelOnReturn(pushErr)
    /\ UNCHANGED << envVars, parentCanceled, decVars, pushVars, metricVars, logVars >>

----------------------------------------------------------------------------
(* unmarshalRequests, the Decoder goroutine *)

\* variant: close(recC) is not deferred and the loop's end returns without it
CloseExhausted_NoClose ==
    /\ decPc = "loop"
    /\ decIdx >= Len(records)
    /\ decPc' = "done"
    /\ UNCHANGED << envVars, parentCanceled, decIdx, pRecord, recCClosed, closeCount,
                    decoded, pushVars, metricVars, logVars, consumeVars >>

\* one iteration of the range loop up to the select: build and unmarshal pRecord
Unmarshalling ==
    /\ decPc = "loop"
    /\ ~RangeExhausted(decIdx, Len(records))
    /\ pRecord' = NewParsedRecord(records[decIdx + 1], decIdx)
    /\ decoded' = Append(decoded, decIdx)
    /\ decPc' = "select"
    /\ UNCHANGED << envVars, parentCanceled, decIdx, recCClosed, closeCount, pushVars,
                    metricVars, logVars, consumeVars >>

\* the range loop ends: return, the deferred close(recC) runs
CloseExhausted ==
    /\ decPc = "loop"
    /\ RangeExhausted(decIdx, Len(records))
    /\ decPc' = "done"
    /\ recCClosed' = TRUE
    /\ closeCount' = closeCount + 1
    /\ UNCHANGED << envVars, parentCanceled, decIdx, pRecord, decoded, pushVars,
                    metricVars, logVars, consumeVars >>

\* variant: on cancellation the unit is dropped and the loop goes on (continue, not return)
SelectDone_Continue ==
    /\ decPc = "select"
    /\ CtxDone
    /\ decPc' = "loop"
    /\ decIdx' = decIdx + 1
    /\ UNCHANGED << envVars, parentCanceled, pRecord, recCClosed, closeCount, decoded,
                    pushVars, metricVars, logVars, consumeVars >>

\* variant: close(recC) is not deferred and the cancellation path returns without it
SelectDone_NoClose ==
    /\ decPc = "select"
    /\ CtxDone
    /\ decPc' = "done"
    /\ UNCHANGED << envVars, parentCanceled, decIdx, pRecord, recCClosed, closeCount,
                    decoded, pushVars, metricVars, logVars, consumeVars >>

\* variant: the send does not wait for the receiver (a select with a default
\* case): the unit is lost when pushRequests is not at its receive
Handoff_SendWithoutReceiver ==
    /\ decPc = "select"
    /\ ~recCClosed
    /\ decIdx' = decIdx + 1
    /\ decPc' = "loop"
    /\ IF pushPc = "recv"
       THEN /\ wr' = pRecord
            /\ received' = Append(received, pRecord)
            /\ recordIdx' = recordIdx + 1
            /\ pushPc' = "handle"
       ELSE UNCHANGED << wr, received, recordIdx, pushPc >>
    /\ UNCHANGED << envVars, parentCanceled, pRecord, recCClosed, closeCount, decoded,
                    pushErr, sinkCalls, inflight, pushResults, metricVars, logVars,
                    consumeVars >>

\* select: case <-done: return, the deferred close(recC) runs
SelectDone ==
    /\ decPc = "select"
    /\ CtxDone
    /\ decPc' = "done"
    /\ recCClosed' = TRUE
    /\ closeCount' = closeCount + 1
    /\ UNCHANGED << envVars, parentCanceled, decIdx, pRecord, decoded, pushVars,
                    metricVars, logVars, consumeVars >>

\* select: case recC <- pRecord, met by the receive of "for wr := range reqC";
\* the channel has no buffer, so the send and the receive are one step
Handoff ==
    /\ decPc = "select"
    /\ pushPc = "recv"
    /\ ~recCClosed
    /\ wr' = pRecord
    /\ received' = Append(received, pRecord)
    /\ recordIdx' = NextRecordIdx(recordIdx, pRecord)
    /\ pushPc' = "handle"
    /\ decIdx' = NextDecIdx(decIdx)
    /\ decPc' = "loop"
    /\ UNCHANGED << envVars, parentCanceled, pRecord, recCClosed, closeCount, decoded,
                    pushErr, sinkCalls, inflight, pushResults, metricVars, logVars,
                    consumeVars >>

----------------------------------------------------------------------------
(* pushRequests, the Pusher stage, run by consume's goroutine *)

\* wr.err != nil: log and continue
SkipParseFailure ==
    /\ pushPc = "handle"
    /\ SkipsPush(wr)
    /\ errLogs' = LogParseFailure(errLogs, wr)
    /\ pushPc' = AfterParseFailure(wr)
    /\ pushErr' = IF AfterParseFailure(wr) = "aborted"
                  THEN ConsumingError(recordIdx, wr.tenantID, wr.err)
                  ELSE pushErr
    /\ UNCHANGED << envVars, parentCanceled, decVars, recordIdx, wr, sinkCalls,
                    inflight, pushResults, received, metricVars, warnLogs,
                    consumeVars >>

\* InjectOrgID and the call of PushToStorage
PushStart ==
    /\ pushPc = "handle"
    /\ ~SkipsPush(wr)
    /\ sinkCalls' = Append(sinkCalls, [ tenant  |-> InjectOrgID(wr.tenantID),
                                        request |-> wr.WriteRequest,
                                        src     |-> wr.src ])
    /\ inflight' = inflight \cup {Len(sinkCalls) + 1}
    /\ pushPc' = "pushing"
    /\ UNCHANGED << envVars, parentCanceled, decVars, recordIdx, wr, pushErr,
                    pushResults, received, metricVars, logVars, consumeVars >>

\* PushToStorage returns: Observe, totalRequests.Inc, the classification of err,
\* and the warning when shouldLog says so
PushReturn ==
    /\ pushPc = "pushing"
    /\ LET err == PushToStorage(wr) IN
          /\ inflight' = inflight \ {Len(sinkCalls)}
          /\ pushResults' = Append(pushResults, err)
          /\ processingTimeSeconds' = ObservedAfterPush(processingTimeSeconds, err)
          /\ totalRequests' = TotalAfterPush(totalRequests, err)
          /\ clientErrRequests' = ClientErrAfterPush(clientErrRequests, err)
          /\ serverErrRequests' = ServerErrAfterPush(serverErrRequests, err)
          /\ pushPc' = AfterPush(err)
          /\ pushErr' = IF AfterPush(err) = "aborted"
                        THEN ConsumingError(recordIdx, wr.tenantID, err)
                        ELSE pushErr
          /\ \E shouldLog \in BOOLEAN :
                warnLogs' = IF err # Nil /\ IsClientError(err) /\ shouldLog
                            THEN LogClientError(warnLogs, wr, err)
                            ELSE warnLogs
    /\ UNCHANGED << envVars, parentCanceled, decVars, recordIdx, wr, sinkCalls,
                    received, errLogs, consumeVars >>

\* "for wr := range reqC" finds the channel closed: return nil
RangeClosed ==
    /\ pushPc = "recv"
    /\ recCClosed
    /\ pushPc' = "completed"
    /\ UNCHANGED << envVars, parentCanceled, decVars, recordIdx, wr, pushErr,
                    sinkCalls, inflight, pushResults, received, metricVars, logVars,
                    consumeVars >>

----------------------------------------------------------------------------

Next ==
    \/ CancelParent
    \/ ConsumeStart
    \/ ConsumeReturn
    \/ Unmarshalling
    \/ CloseExhausted
    \/ SelectDone
    \/ Handoff
    \/ SkipParseFailure
    \/ PushStart
    \/ PushReturn
    \/ RangeClosed

Spec == Init /\ [][Next]_vars

\* termination does not read tenant ids or payloads: one of each is enough here
OneTenantInit ==
    /\ Init
    /\ \A i \in DOMAIN records :
          records[i].tenantID = "A" /\ records[i].content # "validC"

\* the Go scheduler runs a runnable goroutine: weak fairness of the Decoder's own steps
DecoderFairSpec ==
    /\ OneTenantInit
    /\ [][Next]_vars
    /\ WF_vars(Unmarshalling \/ CloseExhausted \/ SelectDone)

\* the steps of the Decoder goroutine and of the goroutine that runs consume
DecoderTask == Unmarshalling \/ CloseExhausted \/ SelectDone \/ Handoff
CallerTask ==
    \/ ConsumeStart \/ ConsumeReturn \/ Handoff
    \/ SkipParseFailure \/ PushStart \/ PushReturn \/ RangeClosed

\* both goroutines are scheduled while they can run, and every push returns
FairSpec ==
    /\ OneTenantInit
    /\ [][Next]_vars
    /\ WF_vars(DecoderTask)
    /\ WF_vars(CallerTask)

----------------------------------------------------------------------------
(* Vocabulary of the properties *)

Returned == consumePc = "returned"

BatchIdx == 0..(Len(records) - 1)

WellFormed(i) == records[i + 1].content \in ValidContents

AllWellFormed == \A i \in BatchIdx : WellFormed(i)

SinkAlwaysSucceeds == \A i \in BatchIdx : sinkResp[i + 1] = "ok"

\* the batch indices in order, and those of the well-formed records
Indices == [j \in 1..Len(records) |-> j - 1]
WellFormedIndices == SelectSeq(Indices, LAMBDA i : WellFormed(i))

\* the Sink call the record at batch index i should cause
ExpectedCall(i) ==
    [ tenant  |-> records[i + 1].tenantID,
      request |-> [decodedFrom |-> records[i + 1].content],
      src     |-> i ]

CallSrcs == [j \in 1..Len(sinkCalls) |-> sinkCalls[j].src]

CallsMatchRecords ==
    \A j \in 1..Len(sinkCalls) : sinkCalls[j] = ExpectedCall(sinkCalls[j].src)

ResultsOfKind(kind) == {j \in 1..Len(pushResults) : pushResults[j].kind = kind}

----------------------------------------------------------------------------
(* C1: for a batch of N well-formed records and a Sink that always         *)
(* succeeds, in a call whose context is not canceled, consume returns nil  *)
(* and the Sink has received exactly N pushes, the i-th carrying the       *)
(* tenant id and the payload of record i; while the call runs the pushes   *)
(* made so far are a prefix of that sequence (none missing, none twice).   *)
C1_AllRecordsPushedInOrder ==
    (AllWellFormed /\ SinkAlwaysSucceeds) =>
        /\ Len(sinkCalls) <= Len(records)
        /\ \A j \in 1..Len(sinkCalls) : sinkCalls[j] = ExpectedCall(j - 1)
        /\ (Returned /\ ~parentCanceled) =>
              /\ retErr = Nil
              /\ Len(sinkCalls) = Len(records)

C1_Witness ==
    /\ Returned /\ ~parentCanceled
    /\ AllWellFormed /\ SinkAlwaysSucceeds
    /\ Len(records) >= 3
    /\ records[1].tenantID # records[2].tenantID
    /\ records[1].content # records[3].content
    /\ Len(sinkCalls) = Len(records)

(* C2: when the push of the record at batch index k returns a server       *)
(* error, the error of pushRequests (and of consume, once it has returned) *)
(* carries k, counted over every unit received including those skipped for *)
(* a decode failure, and the record's tenant id and the cause; the         *)
(* server-error counter is 1 and no record after k is pushed.              *)
C2_ServerErrorAborts ==
    \A j \in ResultsOfKind("server") :
        LET k == pushResults[j].at IN
        /\ sinkCalls[j].src = k
        /\ \A c \in 1..Len(sinkCalls) : sinkCalls[c].src <= k
        /\ serverErrRequests = 1
        /\ pushErr # Nil
        /\ pushErr.index = k
        /\ pushErr.tenant = records[k + 1].tenantID
        /\ pushErr.cause = pushResults[j]
        /\ Returned => retErr = pushErr

C2_Witness ==
    /\ Returned
    /\ retErr # Nil
    /\ retErr.index = 1
    /\ Len(errLogs) = 1
    /\ Len(records) = 3
    /\ Len(sinkCalls) = 1

(* C3: when a push returns a client error and no record of the batch gets  *)
(* a server error from the Sink, in a call whose context is not canceled,  *)
(* consume returns nil and every well-formed record has been pushed, in    *)
(* order; in every state the client-error counter equals the number of     *)
(* pushes that returned a client error.                                    *)
C3_ClientErrorContinues ==
    /\ clientErrRequests = Cardinality(ResultsOfKind("client"))
    /\ ( /\ Returned /\ ~parentCanceled
         /\ \E i \in BatchIdx : sinkResp[i + 1] = "client"
         /\ \A i \in BatchIdx : sinkResp[i + 1] # "server" )
       => /\ retErr = Nil
          /\ CallSrcs = WellFormedIndices
          /\ CallsMatchRecords
          /\ clientErrRequests =
                Cardinality({i \in BatchIdx : sinkResp[i + 1] = "client"})

C3_Witness ==
    /\ Returned /\ ~parentCanceled
    /\ Len(pushResults) = 3
    /\ pushResults[1].kind = "client"
    /\ pushResults[2] = Nil
    /\ pushResults[3] = Nil
    /\ clientErrRequests = 1

(* C4: when exactly one record, at index k, fails to decode, the others    *)
(* are well-formed and the Sink always succeeds, record k is never pushed; *)
(* when consume has returned in a call whose context is not canceled it    *)
(* returned nil, the Sink received the N-1 other records in input order,   *)
(* the total-attempted counter and the processing-time observations are    *)
(* N-1 and both failure counters are 0.                                    *)
C4_DecodeFailureSkipped ==
    \A k \in BatchIdx :
        ( /\ ~WellFormed(k)
          /\ \A i \in BatchIdx \ {k} : WellFormed(i)
          /\ SinkAlwaysSucceeds )
        => /\ \A j \in 1..Len(sinkCalls) : sinkCalls[j].src # k
           /\ (Returned /\ ~parentCanceled) =>
                 /\ retErr = Nil
                 /\ CallSrcs = WellFormedIndices
                 /\ CallsMatchRecords
                 /\ Len(sinkCalls) = Len(records) - 1
                 /\ totalRequests = Len(records) - 1
                 /\ processingTimeSeconds = Len(records) - 1
                 /\ clientErrRequests = 0
                 /\ serverErrRequests = 0

\* the scenario of the specification: A/validA, B/garbage, A/validC
C4_Witness ==
    /\ Returned /\ ~parentCanceled
    /\ records = << [tenantID |-> "A", content |-> "validA"],
                    [tenantID |-> "B", content |-> "garbage"],
                    [tenantID |-> "A", content |-> "validC"] >>
    /\ SinkAlwaysSucceeds
    /\ Len(sinkCalls) = 2
    /\ Len(errLogs) = 1
    /\ totalRequests = 2

(* C5: every unit with a decode error that the Pusher has received and     *)
(* handled has exactly one error-level log entry, in order of receipt; the *)
(* entry carries the message and the wrapped decode error and nothing      *)
(* else: it has no batch index.                                            *)
FailedReceived == SelectSeq(received, LAMBDA u : u.err # Nil)

\* the received unit whose decode error is not logged yet
PendingSkip == IF pushPc = "handle" /\ wr.err # Nil THEN 1 ELSE 0

ParseFailureEntry(i) ==
    [ level |-> "error",
      msg   |-> "failed to parse write request; skipping",
      err   |-> [ kind  |-> "wrapped",
                  msg   |-> "parsing ingest consumer write request",
                  cause |-> [kind |-> "unmarshal", of |-> records[i + 1].content] ] ]

C5_OneLogPerDecodeFailure ==
    /\ Len(errLogs) = Len(FailedReceived) - PendingSkip
    /\ \A j \in 1..Len(errLogs) :
          /\ errLogs[j] = ParseFailureEntry(FailedReceived[j].src)
          /\ DOMAIN errLogs[j] = {"level", "msg", "err"}

\* the claim as written: the entry references the record's batch index
C5_LogReferencesIndex ==
    /\ Len(errLogs) = Len(FailedReceived) - PendingSkip
    /\ \A j \in 1..Len(errLogs) :
          /\ "index" \in DOMAIN errLogs[j]
          /\ errLogs[j].index = FailedReceived[j].src

\* two malformed records at different indices leave the same entry
C5_Witness ==
    /\ Len(errLogs) = 2
    /\ errLogs[1] = errLogs[2]
    /\ FailedReceived[1].src # FailedReceived[2].src
    /\ Len(sinkCalls) = 1

(* C6: in every state the total-attempted counter equals the number of     *)
(* Sink pushes that have returned and the number of processing-time        *)
(* observations, whatever the pushes returned; units skipped for a decode  *)
(* error are not counted; when consume has returned the counter equals the *)
(* number of units that reached a push.                                    *)
ReceivedDecoded == {j \in 1..Len(received) : received[j].err = Nil}

C6_TotalCountsPushes ==
    /\ totalRequests = Len(pushResults)
    /\ processingTimeSeconds = Len(pushResults)
    /\ Len(pushResults) = Len(sinkCalls) - Cardinality(inflight)
    /\ totalRequests <= Cardinality(ReceivedDecoded)
    /\ Returned =>
          /\ totalRequests = Len(sinkCalls)
          /\ totalRequests = Cardinality(ReceivedDecoded)

C6_Witness ==
    /\ Returned
    /\ Len(errLogs) = 1
    /\ Len(pushResults) = 2
    /\ pushResults[1].kind = "client"
    /\ pushResults[2].kind = "server"
    /\ totalRequests = 2

(* C7: in every state at most one Sink push is in progress, and the batch  *)
(* indices of the records pushed so far are strictly increasing: no        *)
(* reordering and no record pushed twice.                                  *)
C7_SequentialPushes ==
    /\ Cardinality(inflight) <= 1
    /\ (inflight # {}) <=> (pushPc = "pushing")
    /\ \A a, b \in 1..Len(sinkCalls) :
          a < b => sinkCalls[a].src < sinkCalls[b].src

C7_Witness ==
    /\ parentCanceled
    /\ Len(errLogs) = 1
    /\ clientErrRequests = 1
    /\ Len(sinkCalls) = 2
    /\ inflight = {2}

(* C8: when consume has returned, no push has returned a server error and  *)
(* the caller's context was not canceled, the Pusher completed by the      *)
(* close of the queue, has received every record of the batch in order,    *)
(* and every well-formed record has been pushed, whatever decode failures  *)
(* and client errors occurred.                                             *)
C8_OnlyServerErrorOrCancelStops ==
    (Returned /\ ~parentCanceled /\ ResultsOfKind("server") = {}) =>
        /\ pushPc = "completed"
        /\ Len(received) = Len(records)
        /\ \A j \in 1..Len(received) : received[j].src = j - 1
        /\ CallSrcs = WellFormedIndices

C8_Witness ==
    /\ Returned /\ ~parentCanceled
    /\ Len(records) = 3
    /\ Len(received) = 3
    /\ Len(errLogs) = 1
    /\ clientErrRequests = 1
    /\ Len(sinkCalls) = 2
    /\ pushResults[1].kind = "client"

(* C9: consume returns a non-nil error exactly when a Sink push of the     *)
(* call returned a server error; at most one push returns a server error   *)
(* per call and the error returned wraps it.                               *)
C9_OnlyServerErrorPropagates ==
    /\ Cardinality(ResultsOfKind("server")) <= 1
    /\ serverErrRequests = Cardinality(ResultsOfKind("server"))
    /\ ~Returned => retErr = Nil
    /\ Returned => ((retErr # Nil) <=> (ResultsOfKind("server") # {}))
    /\ (Returned /\ retErr # Nil) =>
          \A j \in ResultsOfKind("server") : retErr.cause = pushResults[j]

C9_Witness ==
    /\ Returned
    /\ retErr # Nil
    /\ parentCanceled
    /\ Len(errLogs) = 1
    /\ clientErrRequests = 1
    /\ serverErrRequests = 1

(* C10: whenever consume has returned the derived context is canceled by   *)
(* the deferred cancel, and under weak fairness of the Decoder goroutine   *)
(* the Decoder then terminates: it does not stay blocked on the send.      *)
C10_CancelOnEveryExit ==
    /\ [](Returned => (cancelCalled /\ CtxDone))
    /\ (Returned ~> (decPc = "done"))

\* consume has returned after a server error while the Decoder is offering a unit
C10_Witness ==
    /\ Returned
    /\ retErr # Nil
    /\ ~parentCanceled
    /\ decPc = "select"

(* C11: in every state no unit is held by the handoff queue: the sends the *)
(* Decoder has completed are exactly the receives of the Pusher, so the    *)
(* only unit outside both stages is the one the Decoder is offering; the   *)
(* Decoder has decoded at most one record more than the Pusher has         *)
(* received.                                                               *)
UnitsAhead == Len(decoded) - Len(received)

C11_PipelineDepthOne ==
    /\ decIdx = Len(received)
    /\ UnitsAhead \in {0, 1}
    /\ (UnitsAhead = 1) =>
          /\ decPc \in {"select", "done"}
          /\ pRecord.src = Len(received)
    /\ (decPc = "select") => UnitsAhead = 1

\* the Decoder offers the next unit while the previous one is being pushed
C11_Witness ==
    /\ decPc = "select"
    /\ pushPc = "pushing"
    /\ UnitsAhead = 1
    /\ Len(received) = 2

(* C12: the Pusher stage leaves Running (recv, handle, pushing) only for   *)
(* Aborted or Completed. It becomes Aborted exactly in the step in which a *)
(* push returns a server error, the first of the call; it becomes          *)
(* Completed only from its receive, with the queue closed and no server    *)
(* error returned. In a terminal state it stays there, receives no unit,   *)
(* starts no push and changes no counter; consume returns only from a      *)
(* terminal state.                                                         *)
PusherTerminal == {"completed", "aborted"}

C12_PusherStateMachine ==
    /\ [](pushPc \in {"idle", "recv", "handle", "pushing"} \cup PusherTerminal)
    /\ [](Returned => pushPc \in PusherTerminal)
    /\ [][ /\ (pushPc' = "aborted" /\ pushPc # "aborted") =>
                /\ pushPc = "pushing"
                /\ ResultsOfKind("server") = {}
                /\ Len(pushResults') = Len(pushResults) + 1
                /\ pushResults'[Len(pushResults')].kind = "server"
           /\ ( /\ Len(pushResults') = Len(pushResults) + 1
                /\ pushResults'[Len(pushResults')].kind = "server" ) =>
                pushPc' = "aborted"
           /\ (pushPc' = "completed" /\ pushPc # "completed") =>
                /\ pushPc = "recv"
                /\ recCClosed
                /\ ResultsOfKind("server") = {}
           /\ (pushPc \in PusherTerminal) =>
                /\ pushPc' = pushPc
                /\ received' = received
                /\ sinkCalls' = sinkCalls
                /\ metricVars' = metricVars
      ]_vars

\* Aborted while the Decoder is still offering the next unit
C12_Witness ==
    /\ pushPc = "aborted"
    /\ ~Returned
    /\ decPc = "select"
    /\ Len(received) = 2

(* C13: when the Decoder leaves its queue offer without the Pusher having  *)
(* received the unit, the context is canceled and the Decoder has          *)
(* returned; once it has returned it decodes no record and sends no unit,  *)
(* and the unit it was offering is not among the units received.           *)
C13_CancelStopsDecoder ==
    /\ []( (decPc = "done" /\ UnitsAhead = 1) =>
              /\ CtxDone
              /\ \A j \in 1..Len(received) : received[j].src # pRecord.src )
    /\ [][ /\ (decPc = "select" /\ decPc' # "select" /\ received' = received) =>
                /\ CtxDone
                /\ decPc' = "done"
                /\ decoded' = decoded
           /\ (decPc = "done") =>
                /\ decPc' = "done"
                /\ decoded' = decoded
                /\ decIdx' = decIdx
                /\ received' = received
      ]_vars

\* cancellation won the race with records still undecoded
C13_Witness ==
    /\ decPc = "done"
    /\ UnitsAhead = 1
    /\ parentCanceled
    /\ ~Returned
    /\ Len(decoded) < Len(records)
    /\ Len(received) = 1

(* C14: the handoff queue is closed at most once, in the step in which the *)
(* Decoder returns and in every such step (batch exhausted or cancellation *)
(* observed), so it is closed exactly when the Decoder has returned; no    *)
(* unit is received after the close and the queue is never reopened; the   *)
(* Pusher is Completed only with the queue closed.                         *)
C14_ClosedOnceByDecoder ==
    /\ [](closeCount \in {0, 1})
    /\ []((decPc = "done") <=> (recCClosed /\ closeCount = 1))
    /\ [](recCClosed <=> (closeCount = 1))
    /\ []((pushPc = "completed") => recCClosed)
    /\ [][ /\ (closeCount' # closeCount \/ recCClosed' # recCClosed) =>
                /\ decPc # "done"
                /\ decPc' = "done"
                /\ closeCount' = closeCount + 1
                /\ recCClosed'
           /\ (decPc # "done" /\ decPc' = "done") =>
                /\ closeCount' = closeCount + 1
                /\ recCClosed'
           /\ recCClosed => received' = received
      ]_vars

\* closed on the cancellation path, and the Pusher completed on that close
C14_Witness ==
    /\ decPc = "done"
    /\ closeCount = 1
    /\ UnitsAhead = 1
    /\ pushPc = "completed"
    /\ Len(sinkCalls) = 1

(* C15: a push in progress ends only by its own return, and that step      *)
(* records the observation, the total and the failure counter of its       *)
(* result and moves the Pusher on by that result alone, whether or not the *)
(* context is canceled; the step that cancels the caller's context changes *)
(* nothing in either stage; the Decoder returns on cancellation only from  *)
(* its queue offer; consume has not returned while a push is in progress.  *)
LastResult == pushResults[Len(pushResults)]

C15_PushRunsToCompletion ==
    /\ [](inflight # {} => (consumePc = "running" /\ pushPc = "pushing"))
    /\ [](Returned => inflight = {})
    /\ [][ /\ (pushPc = "pushing" /\ pushPc' # "pushing") =>
                /\ inflight' = {}
                /\ Len(pushResults') = Len(pushResults) + 1
                /\ LastResult' = IF sinkResp[wr.src + 1] = "ok"
                                 THEN Nil
                                 ELSE [kind |-> sinkResp[wr.src + 1], at |-> wr.src]
                /\ totalRequests' = totalRequests + 1
                /\ processingTimeSeconds' = processingTimeSeconds + 1
                /\ clientErrRequests' = clientErrRequests +
                      (IF LastResult'.kind = "client" THEN 1 ELSE 0)
                /\ serverErrRequests' = serverErrRequests +
                      (IF LastResult'.kind = "server" THEN 1 ELSE 0)
                /\ pushPc' = IF LastResult'.kind = "server" THEN "aborted" ELSE "recv"
           /\ (pushPc = "pushing" /\ pushPc' = "pushing") =>
                /\ inflight' = inflight
                /\ pushResults' = pushResults
                /\ metricVars' = metricVars
           /\ (parentCanceled' # parentCanceled) =>
                /\ pushVars' = pushVars
                /\ metricVars' = metricVars
                /\ decVars' = decVars
                /\ consumePc' = consumePc
           /\ (decPc = "loop" /\ decPc' = "done") => decIdx >= Len(records)
      ]_vars

\* the Decoder has observed the cancellation while a push is still in progress
C15_Witness ==
    /\ pushPc = "pushing"
    /\ inflight = {2}
    /\ parentCanceled
    /\ decPc = "done"
    /\ UnitsAhead = 1

(* C16: when consume has returned the derived context is canceled; after a *)
(* nil return the Decoder has already returned, after an error return it   *)
(* may still be in its loop or at its queue offer.                         *)
C16_DecoderStoppedOrCanceled ==
    Returned =>
        /\ cancelCalled
        /\ (retErr = Nil) => decPc = "done"
        /\ (decPc # "done") => (retErr # Nil /\ decPc \in {"loop", "select"})

\* the claim as written: the Decoder has terminated whenever consume has returned
C16_DecoderDoneAtReturn == Returned => decPc = "done"

\* consume has returned its error and the Decoder has not reached its select yet
C16_Witness ==
    /\ Returned
    /\ retErr # Nil
    /\ cancelCalled
    /\ decPc = "loop"
    /\ decIdx < Len(records)

(* C17: the Decoder decodes the records in batch order, each at most once, *)
(* and the Pusher receives the units in that order, each built from its    *)
(* own record; when the Decoder has returned by exhausting the batch every *)
(* record has been decoded exactly once.                                   *)
UnitOfRecord(unit, i) ==
    /\ unit.src = i
    /\ unit.tenantID = records[i + 1].tenantID
    /\ (unit.err = Nil) <=> WellFormed(i)
    /\ WellFormed(i) => unit.WriteRequest = [decodedFrom |-> records[i + 1].content]

C17_DecodedInOrderAtMostOnce ==
    /\ Len(decoded) <= Len(records)
    /\ \A j \in 1..Len(decoded) : decoded[j] = j - 1
    /\ \A j \in 1..Len(received) : UnitOfRecord(received[j], j - 1)
    /\ (decPc = "done" /\ UnitsAhead = 0) => decoded = Indices

\* the claim as written: once the Decoder has terminated every record has been decoded
C17_EveryRecordDecoded == (decPc = "done") => decoded = Indices

\* the Decoder returned on consume's own cancel, the last record never decoded
C17_Witness ==
    /\ Returned
    /\ ~parentCanceled
    /\ decPc = "done"
    /\ Len(records) = 3
    /\ Len(decoded) = 2
    /\ Len(received) = 1

(* C18: when consume has returned nil, every unit the Pusher received was  *)
(* either pushed or skipped with a decode-error log entry, and the units   *)
(* received are the records of a prefix of the batch; if moreover the      *)
(* caller's context was not canceled, that prefix is the whole batch.      *)
ReceivedIdx == 0..(Len(received) - 1)

C18_NilReturnCoversReceived ==
    (Returned /\ retErr = Nil) =>
        /\ Len(received) <= Len(records)
        /\ \A j \in 1..Len(received) : received[j].src = j - 1
        /\ {sinkCalls[c].src : c \in 1..Len(sinkCalls)} =
              {i \in ReceivedIdx : WellFormed(i)}
        /\ Len(errLogs) = Cardinality({i \in ReceivedIdx : ~WellFormed(i)})
        /\ Len(sinkCalls) + Len(errLogs) = Len(received)
        /\ ~parentCanceled => Len(received) = Len(records)

\* the claim as written: a nil return means the whole batch reached the Pusher
C18_NilReturnMeansAllReceived ==
    (Returned /\ retErr = Nil) => Len(received) = Len(records)

\* nil is returned after a cancellation with two records never received
C18_Witness ==
    /\ Returned
    /\ retErr = Nil
    /\ parentCanceled
    /\ Len(records) = 3
    /\ Len(received) = 1
    /\ Len(sinkCalls) = 1

(* C19: with both goroutines scheduled fairly and every push returning,    *)
(* the Pusher reaches Completed or Aborted and consume returns, for every  *)
(* batch, every decode and push outcome and every moment of cancellation;  *)
(* until consume has returned some step of the two goroutines is possible: *)
(* the Pusher never waits at its receive for a Decoder that has returned   *)
(* without closing the queue, and the two never wait for each other.       *)
DecoderBlocked == decPc = "select" /\ ~CtxDone /\ pushPc # "recv"
PusherBlocked  == pushPc = "recv" /\ ~recCClosed /\ decPc # "select"

C19_ConsumeTerminates ==
    /\ <>(Returned /\ pushPc \in PusherTerminal)
    /\ [](~Returned => ENABLED (DecoderTask \/ CallerTask))
    /\ [](~(PusherBlocked /\ (DecoderBlocked \/ decPc = "done")))

\* consume has returned after a push error, a decode failure and a cancellation
C19_Witness ==
    /\ Returned
    /\ parentCanceled
    /\ Len(errLogs) = 1
    /\ clientErrRequests = 1
    /\ retErr = Nil
    /\ decPc = "done"

(* C20: when the caller's context is not canceled, what consume leaves     *)
(* behind is a function of the batch and of the Sink's answers alone: the  *)
(* sequence of Sink calls, the three counters and the return value at the  *)
(* return of consume are those of the sequential pass over the batch that  *)
(* stops at the first server error, so any two runs on the same inputs     *)
(* agree whatever the interleaving of the two goroutines was.              *)
ServerIdx == {i \in BatchIdx : WellFormed(i) /\ sinkResp[i + 1] = "server"}

FirstServer ==
    IF ServerIdx = {}
    THEN Len(records)
    ELSE CHOOSE i \in ServerIdx : \A k \in ServerIdx : i <= k

SequentialPushes == SelectSeq(Indices, LAMBDA i : WellFormed(i) /\ i <= FirstServer)

SequentialReturn ==
    IF ServerIdx = {}
    THEN Nil
    ELSE [ kind   |-> "consuming",
           index  |-> FirstServer,
           tenant |-> records[FirstServer + 1].tenantID,
           cause  |-> [kind |-> "server", at |-> FirstServer] ]

C20_OutcomeIndependentOfInterleaving ==
    (Returned /\ ~parentCanceled) =>
        /\ Len(sinkCalls) = Len(SequentialPushes)
        /\ \A j \in 1..Len(sinkCalls) : sinkCalls[j] = ExpectedCall(SequentialPushes[j])
        /\ totalRequests = Len(SequentialPushes)
        /\ clientErrRequests =
              Cardinality({i \in BatchIdx : /\ WellFormed(i)
                                            /\ i < FirstServer
                                            /\ sinkResp[i + 1] = "client"})
        /\ serverErrRequests = (IF ServerIdx = {} THEN 0 ELSE 1)
        /\ retErr = SequentialReturn

\* a run with a decode failure, a client error and a server error, not canceled
C20_Witness ==
    /\ Returned
    /\ ~parentCanceled
    /\ Len(errLogs) = 1
    /\ clientErrRequests = 1
    /\ serverErrRequests = 1
    /\ Len(sinkCalls) = 2
    /\ retErr.index = 2

====
